---- MODULE Spec2Model ----
(***************************************************************************)
(* The wallet store of src/src/store/Wallet.ts as a state machine: the     *)
(* transaction ledger (three group sequences, the hash index, the          *)
(* transaction cache), the REST page fetch, the websocket subscription     *)
(* registry, the initialize / uninitialize sequences run under the lock,   *)
(* and the staged and the signed transactions.                             *)
(***************************************************************************)
EXTENDS Integers, Sequences, FiniteSets, Bags, TLC

(***************************************************************************)
(* Bounds of the model.                                                    *)
(***************************************************************************)
NumHashes == 2
MaxPageLen == 1
MaxInFlight == 1
MaxCalls == 4
MaxHandles == 2
MaxCached == 1
MaxStaged == 2
MaxSigned == 4

(***************************************************************************)
(* Values.                                                                 *)
(***************************************************************************)
HashNames == <<"H1", "H2", "H3", "H4">>
Hashes == {HashNames[i] : i \in 1..NumHashes}

\* A transaction object, by its transactionInfo.hash.
Transactions == [hash : Hashes]
NoTransaction == [hash |-> "none"]

\* Group tags a caller may pass: the three valid ones, a mixed-case one,
\* an unknown one, and the missing (falsy) one.
GroupInputs == {"confirmed", "unconfirmed", "partial", "Partial", "bogus", ""}

AddrA == "TAAAAAAAAAAAAAAAAAAAAAAAAAAAAAAAAAAAAAAA"
AddrB == "TBBBBBBBBBBBBBBBBBBBBBBBBBBBBBBBBBBBBBBB"
AddrShort == "TSHORT"
FetchAddressInputs == {AddrA, AddrShort, ""}
AddressInputs == {AddrA, AddrB, ""}
PageSizes == {10}
PageIds == {"null"}

RECURSIVE SeqsUpTo(_, _)
SeqsUpTo(S, n) ==
  IF n = 0 THEN {<<>>}
  ELSE LET shorter == SeqsUpTo(S, n - 1)
       IN shorter \cup {Append(s, x) : s \in {t \in shorter : Len(t) = n - 1}, x \in S}

VARIABLES
  transactionHashes,        \* state.transactionHashes
  confirmedTransactions,    \* state.confirmedTransactions
  unconfirmedTransactions,  \* state.unconfirmedTransactions
  partialTransactions,      \* state.partialTransactions
  transactionCache,         \* state.transactionCache: key -> entries
  pendingFetches,           \* bag of the REST_FETCH_TRANSACTIONS calls awaiting the gateway
  initialized,              \* state.initialized
  currentWalletAddress,     \* state.currentWalletAddress
  subscriptions,            \* state.subscriptions: the registered handles
  handles,                  \* the websocket handles opened so far, by number
  pendingSubscribes,        \* the SUBSCRIBE calls awaiting their channels
  lockQueue,                \* the callbacks waiting for the lock, first in first out
  issued,                   \* the calls made to initialize, uninitialize, SET_CURRENT_WALLET
  lastBody,                 \* the callback the lock ran last
  stagedTransactions,       \* state.stagedTransactions: its elements and its property "-1"
  signedTransactions,       \* state.signedTransactions
  lastOp                    \* the last operation run, its input and its result

ledgerVars == <<transactionHashes, confirmedTransactions, unconfirmedTransactions,
                partialTransactions, transactionCache, pendingFetches>>

stageVars == <<stagedTransactions, signedTransactions>>

syncVars == <<initialized, currentWalletAddress, subscriptions, handles,
              pendingSubscribes, lockQueue, issued, lastBody>>

vars == <<transactionHashes, confirmedTransactions, unconfirmedTransactions,
          partialTransactions, transactionCache, pendingFetches, initialized,
          currentWalletAddress, subscriptions, handles, pendingSubscribes,
          lockQueue, issued, lastBody, stagedTransactions, signedTransactions,
          lastOp>>

(***************************************************************************)
(* JavaScript helpers.                                                     *)
(***************************************************************************)
\* String.prototype.toLowerCase on the group tags of the model.
ToLowerCase(s) == IF s = "Partial" THEN "partial" ELSE s

\* Array.prototype.find over the positions `hits` of the elements that
\* satisfy the callback: the 1-based position of the first, 0 when none does.
FirstOf(hits) ==
  IF hits = {} THEN 0 ELSE CHOOSE i \in hits : \A j \in hits : i <= j

\* The canonical numeric strings: the only property keys that name an
\* element of an array.
IndexNames == <<"0", "1", "2", "3", "4", "5", "6", "7">>

\* The 1-based position of the array element a property key names, 0 when
\* the key is not an array index.
ArrayIndexOf(key) ==
  IF \E i \in 1..Len(IndexNames) : IndexNames[i] = key
  THEN CHOOSE i \in 1..Len(IndexNames) : IndexNames[i] = key
  ELSE 0

\* `delete arr[key]`: an element is turned into a hole only when the key is
\* an index of the array; any other key names no element.
DeleteProperty(arr, key, hole) ==
  IF ArrayIndexOf(key) \in 1..Len(arr)
  THEN [arr EXCEPT ![ArrayIndexOf(key)] = hole]
  ELSE arr

\* An array that also carries properties whose keys are not indices: its
\* elements, and the other properties by key.
EmptyArray == [elements |-> <<>>, properties |-> <<>>]
ArrayOf(elements) == [elements |-> elements, properties |-> <<>>]

\* The slot `delete` leaves in an array, and the element Array.from or an
\* iteration reads there.
Hole == [hole |-> TRUE]
UndefinedElement == [undefined |-> TRUE]

\* ToString of the numbers findIndex returns: -1, or a 0-based index.
NumberToKey(n) == IF n = -1 THEN "-1" ELSE IndexNames[n + 1]

\* arr.findIndex(tx => tx.hash === hash), with the hash read as the two
\* mutations read it: the 0-based index of the first element of that hash,
\* -1 when there is none; reading the hash of an undefined element met
\* before the match raises a TypeError.
FindIndex(arr, hash) ==
  LET first == FirstOf({i \in 1..Len(arr) : arr[i] = [hash |-> hash]})
      firstUndefined == FirstOf({i \in 1..Len(arr) : arr[i] = UndefinedElement})
  IN [throws |-> firstUndefined # 0 /\ (first = 0 \/ firstUndefined < first),
      index  |-> first - 1]

\* The same search over staged transactions, which carry a content next
\* to transactionInfo.hash.
FindStagedIndex(arr, hash) ==
  FirstOf({i \in 1..Len(arr) : arr[i].hash = hash}) - 1

\* `array[key] = value` for the key of an element, or for a key that is no
\* array index: the element is replaced, or the property is set and the
\* length stays.
SetProperty(array, key, value) ==
  IF ArrayIndexOf(key) \in 1..Len(array.elements)
  THEN [array EXCEPT !.elements[ArrayIndexOf(key)] = value]
  ELSE [array EXCEPT !.properties = (key :> value) @@ @]

\* Array.from(arr): the same length, undefined where arr has a hole.
ArrayFrom(arr) ==
  [i \in 1..Len(arr) |-> IF arr[i] = Hole THEN UndefinedElement ELSE arr[i]]

\* ToPropertyKey of the values the store uses as keys: an object becomes
\* "[object Object]", a string stays itself.
ObjectKey == "[object Object]"

Count(x, s) == Cardinality({i \in 1..Len(s) : s[i] = x})
CountHash(h, txs) == Cardinality({i \in 1..Len(txs) : txs[i].hash = h})

(***************************************************************************)
(* The store's state as one value, so that an action dispatched from       *)
(* inside another (ADD_TRANSACTION from REST_FETCH_TRANSACTIONS) acts on   *)
(* the state the outer one has reached.                                    *)
(***************************************************************************)
Store ==
  [transactionHashes |-> transactionHashes,
   confirmedTransactions |-> confirmedTransactions,
   unconfirmedTransactions |-> unconfirmedTransactions,
   partialTransactions |-> partialTransactions,
   transactionCache |-> transactionCache]

SetStore(S) ==
  /\ transactionHashes' = S.transactionHashes
  /\ confirmedTransactions' = S.confirmedTransactions
  /\ unconfirmedTransactions' = S.unconfirmedTransactions
  /\ partialTransactions' = S.partialTransactions
  /\ transactionCache' = S.transactionCache

GroupVariables == {"confirmedTransactions", "unconfirmedTransactions", "partialTransactions"}

\* What a hole left by `delete` reads as.
\* The getter with its three arguments the other way round.
allTransactionsConfirmedFirst(S) ==
  S.confirmedTransactions \o S.unconfirmedTransactions \o S.partialTransactions

\* getter allTransactions: [].concat(partial, unconfirmed, confirmed)
allTransactions(S) ==
  S.partialTransactions \o S.unconfirmedTransactions \o S.confirmedTransactions

UndefinedHash == "undefined"
UndefinedTransaction == [hash |-> "undefined"]

\* Cache keys. A fingerprint is the tuple of its four fields; the key a
\* missing cacheKey member turns into is the property name "undefined".
UndefinedKey == <<"undefined">>
CacheKeyCreate(args) == args

\* transactionGroupToStateVariable: the state variable of a group tag, or
\* the Error thrown for an unknown tag.
transactionGroupToStateVariable(group) ==
  LET transactionGroup == ToLowerCase(group)
  IN IF transactionGroup \in {"unconfirmed", "confirmed", "partial"}
     THEN [threw |-> FALSE,
           name |-> CASE transactionGroup = "unconfirmed" -> "unconfirmedTransactions"
                      [] transactionGroup = "confirmed" -> "confirmedTransactions"
                      [] transactionGroup = "partial" -> "partialTransactions"]
     ELSE [threw |-> TRUE, name |-> ""]

\* mutation addTransactionToCache. The payload's cacheKey is UndefinedKey
\* when the payload object has no cacheKey member.
addTransactionToCache(cache, payload) ==
  LET key == payload.cacheKey
      created == IF key \in DOMAIN cache THEN cache ELSE cache @@ (key :> <<>>)
  IN [created EXCEPT ![key] =
        Append(@, [hash |-> payload.hash, transaction |-> payload.transaction])]

\* The payload ADD_TRANSACTION commits to addTransactionToCache: the object
\* literal {hash, transaction}, which has no cacheKey member.
AddCachePayload(transactionMessage) ==
  [cacheKey |-> UndefinedKey,
   hash |-> transactionMessage.transaction.hash,
   transaction |-> transactionMessage.transaction]

\* The duplicate test of ADD_TRANSACTION (mutant: the test never matches).
HashKnownNever(hashes, hash) == FALSE

\* hashes.find(hash => hash === transaction.transactionInfo.hash) !== undefined
HashKnown(hashes, hash) == FirstOf({i \in 1..Len(hashes) : hashes[i] = hash}) # 0

\* action ADD_TRANSACTION on store value S: the store afterwards, and
\* whether the action threw.
AddTransaction(S, transactionMessage) ==
  IF transactionMessage.group = ""
  THEN [threw |-> TRUE, store |-> S]
  ELSE
    LET variable == transactionGroupToStateVariable(transactionMessage.group)
        transaction == transactionMessage.transaction
    IN IF variable.threw
       THEN [threw |-> TRUE, store |-> S]
       ELSE IF HashKnown(S.transactionHashes, transaction.hash)
       THEN [threw |-> FALSE, store |-> S]
       ELSE
         LET transactionGroup == variable.name
             transactions == Append(S[transactionGroup], transaction)
             hashes == Append(S.transactionHashes, transaction.hash)
             cache == addTransactionToCache(S.transactionCache,
                                            AddCachePayload(transactionMessage))
         IN [threw |-> FALSE,
             store |-> [S EXCEPT ![transactionGroup] = transactions,
                                 !.transactionHashes = hashes,
                                 !.transactionCache = cache]]

\* Line 338 (mutant: the found hash is taken out of the index).
RemoveHashCompact(hashes, findHashIt) ==
  LET keep == {i \in 1..Len(hashes) : hashes[i] # findHashIt}
      at(k) == CHOOSE i \in keep : Cardinality({j \in keep : j < i}) = k - 1
  IN [k \in 1..Cardinality(keep) |-> hashes[at(k)]]

\* `delete hashes[findHashIt]`: findHashIt is the hash found (a string), or
\* undefined; either is used as a property key.
RemoveHash(hashes, findHashIt) == DeleteProperty(hashes, findHashIt, UndefinedHash)

\* `delete transactions[findIterator]`: findIterator is the transaction
\* object found, used as a property key.
RemoveFound(transactions, findIterator) ==
  DeleteProperty(transactions, ObjectKey, UndefinedTransaction)

\* action REMOVE_TRANSACTION on store value S. It reads the hash of a
\* transaction as `.meta.hash` where ADD_TRANSACTION reads
\* `.transactionInfo.hash`; whether the payload, and the transactions held,
\* carry a `meta` member is the caller's (payloadHasMeta, heldHaveMeta).
RemoveTransaction(S, transactionMessage, payloadHasMeta, heldHaveMeta) ==
  IF transactionMessage.group = ""
  THEN [threw |-> TRUE, store |-> S]
  ELSE
    LET variable == transactionGroupToStateVariable(transactionMessage.group)
        transaction == transactionMessage.transaction
    IN IF variable.threw \/ ~payloadHasMeta
       THEN [threw |-> TRUE, store |-> S]      \* unknown group; transaction.meta is undefined
       ELSE
         LET transactionGroup == variable.name
             hashes == S.transactionHashes
             transactions == S[transactionGroup]
             transactionHash == transaction.hash
             hashIndex == FirstOf({i \in 1..Len(hashes) : hashes[i] = transactionHash})
             findHashIt == IF hashIndex = 0 THEN UndefinedHash ELSE hashes[hashIndex]
             \* tx.meta.hash is read for every element up to the match
             findIndex == FirstOf({i \in 1..Len(transactions) :
                                    \/ ~heldHaveMeta
                                    \/ transactions[i].hash = transactionHash})
         IN IF findIndex = 0
            THEN [threw |-> FALSE, store |-> S]
            ELSE IF ~heldHaveMeta
            THEN [threw |-> TRUE, store |-> S]  \* tx.meta is undefined
            ELSE [threw |-> FALSE,
                  store |-> [S EXCEPT
                     ![transactionGroup] = RemoveFound(transactions, transactions[findIndex]),
                     !.transactionHashes = RemoveHash(hashes, findHashIt)]]

\* action RESET_TRANSACTIONS on store value S.
ResetTransactions(S) ==
  [S EXCEPT !.confirmedTransactions = <<>>,
            !.unconfirmedTransactions = <<>>,
            !.partialTransactions = <<>>]

(***************************************************************************)
(* REST_FETCH_TRANSACTIONS.                                                *)
(***************************************************************************)
\* Lines 387-389 left out: the tag is kept as it came.
NormalizeGroupKept(group) == group

\* Lines 387-389: any tag other than the three exact ones becomes 'confirmed'.
NormalizeGroup(group) ==
  IF group = "" \/ group \notin {"partial", "unconfirmed", "confirmed"}
  THEN "confirmed"
  ELSE group

\* Line 397 left out: the cache is never looked into.
CacheHitNever(cache, cacheKey) == FALSE

\* Line 397: cache.hasOwnProperty(cacheKey)
CacheHit(cache, cacheKey) == cacheKey \in DOMAIN cache

\* Line 391: !address || address.length !== 40
FetchAddressRejected(address) == address = "" \/ Len(address) # 40

\* Line 411: `let blockHeights: number[]` is declared and never assigned.
BlockHeightsDeclared == [defined |-> FALSE, items |-> <<>>]

RetNone == [kind |-> "none", page |-> <<>>]
RetUndefined == [kind |-> "undefined", page |-> <<>>]
RetFalse == [kind |-> "false", page |-> <<>>]
RetThrow == [kind |-> "throw", page |-> <<>>]
RetPending == [kind |-> "pending", page |-> <<>>]
RetPage(page) == [kind |-> "page", page |-> page]

\* transactions.map(transaction => dispatch('ADD_TRANSACTION', ...)): the
\* messages are dispatched in order; a throw ends the map.
RECURSIVE AddAll(_, _)
AddAll(S, messages) ==
  IF messages = <<>>
  THEN [threw |-> FALSE, store |-> S]
  ELSE LET first == AddTransaction(S, Head(messages))
       IN IF first.threw THEN first ELSE AddAll(first.store, Tail(messages))

\* Lines 410-441, from the answer of the gateway on: the store afterwards,
\* the value returned, the ADD_TRANSACTION messages dispatched and whether
\* network/REST_FETCH_BLOCKS was dispatched.
FetchBody(S, request, response) ==
  LET group == request.group
      page == response.page
      none == [store |-> S, ret |-> RetFalse, dispatched |-> <<>>, blocks |-> FALSE]
      \* line 416: blockHeights.push(...) for each transaction of a confirmed page
      pushThrows == group = "confirmed" /\ Len(page) > 0 /\ ~BlockHeightsDeclared.defined
      blockHeights == IF group = "confirmed" /\ BlockHeightsDeclared.defined
                      THEN [defined |-> TRUE, items |-> [i \in 1..Len(page) |-> page[i].hash]]
                      ELSE BlockHeightsDeclared
      messages == [i \in 1..Len(page) |->
                     [group |-> group, cacheKey |-> request.cacheKey, transaction |-> page[i]]]
      added == AddAll(S, messages)
  IN IF response.error THEN none          \* the awaited promise rejects
     ELSE IF pushThrows THEN none
     ELSE IF added.threw
     THEN [none EXCEPT !.store = added.store]
     ELSE IF ~blockHeights.defined        \* line 431: blockHeights.length
     THEN [store |-> added.store, ret |-> RetFalse, dispatched |-> messages, blocks |-> FALSE]
     ELSE [store |-> added.store, ret |-> RetPage(page), dispatched |-> messages,
           blocks |-> Len(blockHeights.items) > 0]

(***************************************************************************)
(* The record of the last operation: its name, the group it acted on (the  *)
(* lower-cased or defaulted tag; "" when it threw on the tag), whether it  *)
(* hit (ADD_TRANSACTION: the hash was known; REMOVE_TRANSACTION: the       *)
(* transaction was found; REST_FETCH_TRANSACTIONS: the cache held the      *)
(* key; UNSUBSCRIBE: handles were registered), what the gateway answered   *)
(* ("error", "empty", "page") or where a handle raised, the kind of        *)
(* value returned, and for an ADD_TRANSACTION that returned the hash of    *)
(* the transaction dispatched, for a REST_FETCH_TRANSACTIONS answered from *)
(* the cache the entry returned, for one the gateway answered whether      *)
(* network/REST_FETCH_BLOCKS was dispatched.                               *)
(***************************************************************************)
Op(op, group, hit, answer, ret) ==
  [op |-> op, group |-> group, hit |-> hit, answer |-> answer, ret |-> ret,
   key |-> UndefinedKey, hash |-> "none", value |-> <<>>, blocks |-> FALSE]

\* The record of a REST_FETCH_TRANSACTIONS step, with the cache key of the call.
FetchOp(op, call, hit, answer, ret) ==
  [Op(op, call.group, hit, answer, ret) EXCEPT !.key = call.cacheKey]

AnswerKind(response) ==
  IF response.error THEN "error" ELSE IF response.page = <<>> THEN "empty" ELSE "page"

\* The group an ADD_TRANSACTION or REMOVE_TRANSACTION message names, "" when
\* the action throws on it.
GroupOf(transactionMessage) ==
  IF transactionMessage.group = ""
     \/ transactionGroupToStateVariable(transactionMessage.group).threw
  THEN ""
  ELSE ToLowerCase(transactionMessage.group)

\* The messages dispatched.
Messages == [group : GroupInputs, cacheKey : {UndefinedKey}, transaction : Transactions]
\* A request names every group tag with an address the gateway can serve, and
\* the addresses the action turns away (whatever the group) with one tag.
Requests ==
  [group : GroupInputs, address : {AddrA}, pageSize : PageSizes, id : PageIds]
    \cup [group : {"confirmed"}, address : FetchAddressInputs, pageSize : PageSizes,
          id : PageIds]
\* The answers of the gateway.
Pages == SeqsUpTo(Transactions, MaxPageLen)
Responses == [error : {FALSE}, page : Pages] \cup {[error |-> TRUE, page |-> <<>>]}

\* The shapes of the objects REMOVE_TRANSACTION may meet: <<payload has
\* `meta`, held transactions have `meta`>>.
MetaShapes == {<<TRUE, TRUE>>, <<TRUE, FALSE>>, <<FALSE, FALSE>>}

(***************************************************************************)
(* Actions of the ledger.                                                  *)
(***************************************************************************)
Init ==
  /\ transactionHashes = <<>>
  /\ confirmedTransactions = <<>>
  /\ unconfirmedTransactions = <<>>
  /\ partialTransactions = <<>>
  /\ transactionCache = <<>>
  /\ pendingFetches = EmptyBag
  /\ initialized = FALSE
  /\ currentWalletAddress = "null"
  /\ subscriptions = <<>>
  /\ handles = <<>>
  /\ pendingSubscribes = <<>>
  /\ lockQueue = <<>>
  /\ issued = <<>>
  /\ lastBody = "none"
  /\ stagedTransactions = EmptyArray
  /\ signedTransactions = <<>>
  /\ lastOp = Op("init", "", FALSE, "none", "none")

ADD_TRANSACTION(transactionMessage) ==
  \E result \in {AddTransaction(Store, transactionMessage)} :
     /\ SetStore(result.store)
     /\ lastOp' = [Op("ADD_TRANSACTION", GroupOf(transactionMessage),
                        ~result.threw /\ HashKnown(transactionHashes,
                                                   transactionMessage.transaction.hash),
                        "none", IF result.threw THEN "throw" ELSE "undefined")
                     EXCEPT !.hash = IF result.threw THEN "none"
                                     ELSE transactionMessage.transaction.hash]
     /\ UNCHANGED <<stageVars, pendingFetches, syncVars>>

REMOVE_TRANSACTION(transactionMessage, payloadHasMeta, heldHaveMeta) ==
  \E result \in {RemoveTransaction(Store, transactionMessage, payloadHasMeta, heldHaveMeta)} :
     /\ SetStore(result.store)
     /\ lastOp' = Op("REMOVE_TRANSACTION", GroupOf(transactionMessage),
                     /\ ~result.threw
                     /\ CountHash(transactionMessage.transaction.hash,
                                  Store[transactionGroupToStateVariable(
                                          transactionMessage.group).name]) > 0,
                     "none", IF result.threw THEN "throw" ELSE "undefined")
     /\ UNCHANGED <<stageVars, pendingFetches, syncVars>>

RESET_TRANSACTIONS ==
  /\ SetStore(ResetTransactions(Store))
  /\ lastOp' = Op("RESET_TRANSACTIONS", "", FALSE, "none", "undefined")
  /\ UNCHANGED <<stageVars, pendingFetches, syncVars>>

\* The request as REST_FETCH_TRANSACTIONS goes on with it: the group
\* defaulted, the cache key made of the four fields.
Normalized(request) ==
  LET group == NormalizeGroup(request.group)
  IN [group |-> group, address |-> request.address, pageSize |-> request.pageSize,
      id |-> request.id,
      cacheKey |-> CacheKeyCreate(<<group, request.address, request.pageSize, request.id>>)]

\* REST_FETCH_TRANSACTIONS up to its first suspension: it returns at once
\* (address rejected: undefined; cache hit: the cached entry) or asks the
\* gateway and waits.
REST_FETCH_TRANSACTIONS(request) ==
  \E call \in {Normalized(request)} :
     IF FetchAddressRejected(request.address)
     THEN /\ lastOp' = FetchOp("REST_FETCH_TRANSACTIONS", call, FALSE, "none", "undefined")
          /\ UNCHANGED <<stageVars, ledgerVars, syncVars>>
     ELSE IF CacheHit(transactionCache, call.cacheKey)
     THEN /\ lastOp' = [FetchOp("REST_FETCH_TRANSACTIONS", call, TRUE, "none", "cached")
                        EXCEPT !.value = transactionCache[call.cacheKey]]
          /\ UNCHANGED <<stageVars, ledgerVars, syncVars>>
     ELSE /\ BagCardinality(pendingFetches) < MaxInFlight
          /\ pendingFetches' = pendingFetches (+) SetToBag({call})
          /\ lastOp' = FetchOp("REST_FETCH_TRANSACTIONS", call, FALSE, "none", "pending")
          /\ UNCHANGED <<stageVars, transactionHashes, confirmedTransactions, unconfirmedTransactions,
                         partialTransactions, transactionCache, syncVars>>

\* The gateway answers a waiting call, which runs to its return.
FetchCompletes(call, response) ==
  \E result \in {FetchBody(Store, call, response)} :
     /\ BagIn(call, pendingFetches)
     /\ SetStore(result.store)
     /\ pendingFetches' = pendingFetches (-) SetToBag({call})
     /\ lastOp' = [FetchOp("FetchCompletes", call, FALSE, AnswerKind(response),
                          result.ret.kind)
                   EXCEPT !.blocks = result.blocks]
     /\ UNCHANGED <<stageVars, syncVars>>

Next ==
  \/ \E m \in Messages : ADD_TRANSACTION(m)
  \/ \E m \in Messages, shape \in MetaShapes : REMOVE_TRANSACTION(m, shape[1], shape[2])
  \/ RESET_TRANSACTIONS
  \/ \E r \in Requests : REST_FETCH_TRANSACTIONS(r)
  \/ \E call \in BagToSet(pendingFetches), response \in Responses :
        FetchCompletes(call, response)

Spec == Init /\ [][Next]_vars

(***************************************************************************)
(* The subscription registry.                                              *)
(***************************************************************************)
\* The addresses SET_CURRENT_WALLET reads from the wallets repository.
WalletAddresses == {AddrA, AddrB}

\* A SubscriptionType value {listener, subscriptions} for the handle with
\* that number. `length` is what `payload.length` evaluates to: the object
\* has no such member, and 0 stands for the undefined it gives.
SubscriptionObject(handle) == [handle |-> handle, length |-> 0]

\* The websocket handle subscribeTransactionChannels opens for an address,
\* on behalf of the numbered call: a listener and its channel subscriptions.
\* closedEarly tells that the listener was closed while its subscriptions
\* were still subscribed.
OpenHandle(address, call) ==
  [address |-> address, call |-> call, subsOpen |-> TRUE, listenerOpen |-> TRUE,
   closedEarly |-> FALSE]

\* subscription.subscriptions.map(sub => sub.unsubscribe())
UnsubscribeChannels(handle) == [handle EXCEPT !.subsOpen = FALSE]

\* subscription.listener.close()
CloseListener(handle) ==
  [handle EXCEPT !.listenerOpen = FALSE, !.closedEarly = @ \/ handle.subsOpen]

\* One turn of the loop of UNSUBSCRIBE, with the two calls the other way round.
TearDownCloseFirst(handle) == UnsubscribeChannels(CloseListener(handle))

\* One turn of the loop of UNSUBSCRIBE: the channels, then the listener.
TearDown(handle) == CloseListener(UnsubscribeChannels(handle))

\* The mutation addSubscriptions.
addSubscriptions(registry, payload) ==
  IF payload.length # 0 THEN Append(registry, payload) ELSE registry

\* The sequences setSubscriptions may be committed with: registered handles
\* in any order, each at most once.
RECURSIVE Arrangements(_)
Arrangements(S) ==
  {<<>>} \cup UNION {{<<SubscriptionObject(h)>> \o rest : rest \in Arrangements(S \ {h})} : h \in S}

\* The points where UNSUBSCRIBE may fail: <<0, "none">> when no call raises,
\* <<i, "unsubscribe">> when a subscription of the i-th registered handle
\* raises on unsubscribe, <<i, "close">> when its listener raises on close.
FailPoints(registry) ==
  {<<0, "none">>} \cup ((1..Len(registry)) \X {"unsubscribe", "close"})

\* The loop of UNSUBSCRIBE over the registry: each handle's subscriptions
\* are unsubscribed, then its listener is closed; an exception leaves the
\* loop. Gives the handles afterwards and whether the loop raised.
Unsubscribe(registry, hs, fail) ==
  LET reached == IF fail[1] = 0 THEN Len(registry) ELSE fail[1] - 1
      done == {registry[i].handle : i \in 1..reached}
  IN [threw |-> fail[1] # 0,
      handles |->
        [h \in DOMAIN hs |->
           IF h \in done
           THEN TearDown(hs[h])
           ELSE IF fail[1] # 0 /\ registry[fail[1]].handle = h /\ fail[2] = "close"
           THEN UnsubscribeChannels(hs[h])
           ELSE hs[h]]]

\* SUBSCRIBE up to its await: nothing for an empty address, else the call
\* to subscribeTransactionChannels is under way.
SubscribeStarted(pending, address, call) ==
  IF address = "" THEN pending ELSE Append(pending, [address |-> address, call |-> call])

\* The number of SUBSCRIBE calls that opened or will open a handle.
HandlesClaimed ==
  Len(handles) + Len(pendingSubscribes)
    + Cardinality({i \in 1..Len(lockQueue) :
                     \/ lockQueue[i].op = "initialize" /\ lockQueue[i].address # ""
                     \/ lockQueue[i].next # ""})

RemoveAt(seq, i) == SubSeq(seq, 1, i - 1) \o SubSeq(seq, i + 1, Len(seq))

\* The action SUBSCRIBE dispatched on its own.
SUBSCRIBE(address) ==
  /\ address # "" => HandlesClaimed < MaxHandles
  /\ pendingSubscribes' = SubscribeStarted(pendingSubscribes, address, 0)
  /\ lastOp' = Op("SUBSCRIBE", "", FALSE, "none", IF address = "" THEN "undefined" ELSE "pending")
  /\ UNCHANGED <<stageVars, ledgerVars, initialized, currentWalletAddress, subscriptions, handles,
                 lockQueue, issued, lastBody>>

\* subscribeTransactionChannels resolves for the i-th waiting SUBSCRIBE,
\* which commits addSubscriptions with the handle and returns.
SubscribeCompletes(i) ==
  /\ i \in 1..Len(pendingSubscribes)
  /\ handles' = Append(handles, OpenHandle(pendingSubscribes[i].address,
                                            pendingSubscribes[i].call))
  /\ subscriptions' = addSubscriptions(subscriptions, SubscriptionObject(Len(handles) + 1))
  /\ pendingSubscribes' = RemoveAt(pendingSubscribes, i)
  /\ lastOp' = Op("SubscribeCompletes", "", subscriptions' # subscriptions, "none", "undefined")
  /\ UNCHANGED <<stageVars, ledgerVars, initialized, currentWalletAddress, lockQueue, issued, lastBody>>

\* The mutation setSubscriptions.
setSubscriptions(data) ==
  /\ subscriptions' = data
  /\ lastOp' = Op("setSubscriptions", "", data # <<>>, "none", "undefined")
  /\ UNCHANGED <<stageVars, ledgerVars, initialized, currentWalletAddress, handles,
                 pendingSubscribes, lockQueue, issued, lastBody>>

RESET_SUBSCRIPTIONS ==
  /\ subscriptions' = <<>>
  /\ lastOp' = Op("RESET_SUBSCRIPTIONS", "", subscriptions # <<>>, "none", "undefined")
  /\ UNCHANGED <<stageVars, ledgerVars, initialized, currentWalletAddress, handles,
                 pendingSubscribes, lockQueue, issued, lastBody>>

\* The action UNSUBSCRIBE dispatched on its own: the loop, then
\* RESET_SUBSCRIPTIONS unless the loop raised.
UNSUBSCRIBE(fail) ==
  \E result \in {Unsubscribe(subscriptions, handles, fail)} :
     /\ fail \in FailPoints(subscriptions)
     /\ handles' = result.handles
     /\ subscriptions' = IF result.threw THEN subscriptions ELSE <<>>
     /\ lastOp' = Op("UNSUBSCRIBE", "", subscriptions # <<>>, fail[2],
                     IF result.threw THEN "throw" ELSE "undefined")
     /\ UNCHANGED <<stageVars, ledgerVars, initialized, currentWalletAddress, pendingSubscribes,
                    lockQueue, issued, lastBody>>

RegistryNext ==
  \/ \E address \in AddressInputs : SUBSCRIBE(address)
  \/ \E i \in 1..Len(pendingSubscribes) : SubscribeCompletes(i)
  \/ \E data \in Arrangements(1..Len(handles)) : setSubscriptions(data)
  \/ RESET_SUBSCRIPTIONS
  \/ \E fail \in FailPoints(subscriptions) : UNSUBSCRIBE(fail)

SpecRegistry == Init /\ [][RegistryNext]_vars

(***************************************************************************)
(* initialize and uninitialize under the lock. The lock (AwaitLock) runs   *)
(* the callbacks handed to it one at a time, in the order they were        *)
(* handed in. Both callbacks are async functions without an await, so a    *)
(* callback runs from its first statement to its last in one step.         *)
(* REST_FETCH_INFO, which initialize dispatches without waiting, writes    *)
(* the account info only and is left out.                                  *)
(***************************************************************************)
\* A callback waiting for the lock: the action that handed it in, its
\* address argument, the number of the call it belongs to, and for the
\* uninitialize of SET_CURRENT_WALLET the address to initialize afterwards.
Waiting(op, address, call, next) ==
  [op |-> op, address |-> address, call |-> call, next |-> next]

Call(op, address) == [op |-> op, address |-> address]

\* The action initialize: its callback is handed to the lock.
initialize(address) ==
  /\ Len(issued) < MaxCalls
  /\ address # "" => HandlesClaimed < MaxHandles
  /\ issued' = Append(issued, Call("initialize", address))
  /\ lockQueue' = Append(lockQueue, Waiting("initialize", address, Len(issued) + 1, ""))
  /\ lastOp' = Op("initialize", "", address # "", "none", "pending")
  /\ UNCHANGED <<stageVars, ledgerVars, initialized, currentWalletAddress, subscriptions, handles,
                 pendingSubscribes, lastBody>>

\* The action uninitialize: its callback is handed to the lock.
uninitialize ==
  /\ Len(issued) < MaxCalls
  /\ issued' = Append(issued, Call("uninitialize", ""))
  /\ lockQueue' = Append(lockQueue, Waiting("uninitialize", "", Len(issued) + 1, ""))
  /\ lastOp' = Op("uninitialize", "", FALSE, "none", "pending")
  /\ UNCHANGED <<stageVars, ledgerVars, initialized, currentWalletAddress, subscriptions, handles,
                 pendingSubscribes, lastBody>>

\* SET_CURRENT_WALLET up to its first await: the wallet is read and
\* committed, uninitialize is dispatched.
SET_CURRENT_WALLET(address) ==
  /\ Len(issued) < MaxCalls
  /\ HandlesClaimed < MaxHandles
  /\ currentWalletAddress' = address
  /\ issued' = Append(issued, Call("SET_CURRENT_WALLET", address))
  /\ lockQueue' = Append(lockQueue, Waiting("uninitialize", "", Len(issued) + 1, address))
  /\ lastOp' = Op("SET_CURRENT_WALLET", "", TRUE, "none", "pending")
  /\ UNCHANGED <<stageVars, ledgerVars, initialized, subscriptions, handles, pendingSubscribes,
                 lastBody>>

\* The lock runs the callback of initialize at the head of its queue.
initializeCallback ==
  /\ lockQueue # <<>>
  /\ Head(lockQueue).op = "initialize"
  /\ IF Head(lockQueue).address = ""
     THEN UNCHANGED <<transactionHashes, confirmedTransactions, unconfirmedTransactions,
                      partialTransactions, transactionCache, pendingSubscribes, initialized>>
     ELSE /\ pendingSubscribes' = SubscribeStarted(pendingSubscribes, Head(lockQueue).address,
                                                   Head(lockQueue).call)
          /\ SetStore(ResetTransactions(Store))
          /\ initialized' = TRUE
  /\ lockQueue' = Tail(lockQueue)
  /\ lastBody' = "initialize"
  /\ lastOp' = Op("initializeCallback", "", Head(lockQueue).address # "", "none", "undefined")
  /\ UNCHANGED <<stageVars, pendingFetches, currentWalletAddress, subscriptions, handles, issued>>

\* The lock runs the callback of uninitialize at the head of its queue. An
\* exception of UNSUBSCRIBE leaves the callback. The SET_CURRENT_WALLET
\* that awaits it goes on to dispatch initialize; when the callback raised,
\* the lock may hand the exception to the awaiting caller or keep it.
uninitializeCallback(fail) ==
  \E result \in {Unsubscribe(subscriptions, handles, fail)},
     handedOn \in (IF fail[1] # 0 THEN BOOLEAN ELSE {FALSE}) :
     /\ lockQueue # <<>>
     /\ Head(lockQueue).op = "uninitialize"
     /\ fail \in FailPoints(subscriptions)
     /\ handles' = result.handles
     /\ IF result.threw
        THEN UNCHANGED <<transactionHashes, confirmedTransactions, unconfirmedTransactions,
                         partialTransactions, transactionCache, subscriptions, initialized>>
        ELSE /\ subscriptions' = <<>>
             /\ SetStore(ResetTransactions(Store))
             /\ initialized' = FALSE
     /\ lockQueue' =
          IF Head(lockQueue).next # "" /\ ~handedOn
          THEN Append(Tail(lockQueue),
                      Waiting("initialize", Head(lockQueue).next, Head(lockQueue).call, ""))
          ELSE Tail(lockQueue)
     /\ lastBody' = "uninitialize"
     /\ lastOp' = Op("uninitializeCallback", "", Head(lockQueue).next # "", fail[2],
                     IF result.threw THEN "throw" ELSE "undefined")
     /\ UNCHANGED <<stageVars, pendingFetches, currentWalletAddress, pendingSubscribes, issued>>

SyncNext ==
  \/ \E address \in AddressInputs : initialize(address)
  \/ uninitialize
  \/ \E address \in WalletAddresses : SET_CURRENT_WALLET(address)
  \/ initializeCallback
  \/ \E fail \in FailPoints(subscriptions) : uninitializeCallback(fail)
  \/ \E i \in 1..Len(pendingSubscribes) : SubscribeCompletes(i)

SpecSync == Init /\ [][SyncNext]_vars

(***************************************************************************)
(* A wallet session: the wallet is switched with SET_CURRENT_WALLET while  *)
(* pages of its unconfirmed transactions are fetched.                      *)
(***************************************************************************)
SessionRequests ==
  [group : {"unconfirmed"}, address : WalletAddresses, pageSize : PageSizes, id : PageIds]

\* A page is asked for the wallet the store is initialized with, no switch
\* being under way.
FetchForCurrentWallet(request) ==
  /\ initialized
  /\ lockQueue = <<>>
  /\ request.address = currentWalletAddress
  /\ REST_FETCH_TRANSACTIONS(request)

SessionNext ==
  \/ \E address \in WalletAddresses : SET_CURRENT_WALLET(address)
  \/ initializeCallback
  \/ \E fail \in FailPoints(subscriptions) : uninitializeCallback(fail)
  \/ \E i \in 1..Len(pendingSubscribes) : SubscribeCompletes(i)
  \/ \E r \in SessionRequests : FetchForCurrentWallet(r)
  \/ \E call \in BagToSet(pendingFetches), response \in Responses :
        FetchCompletes(call, response)

SpecSession == Init /\ [][SessionNext]_vars

(***************************************************************************)
(* The page fetch over a cache that holds pages: entries are committed to  *)
(* transactionCache with the mutation addTransactionToCache under the      *)
(* cache key of a call.                                                    *)
(***************************************************************************)
\* The payloads committed: a transaction under the key of the first page of
\* the confirmed transactions of an address.
CachePayloads ==
  {[cacheKey |-> CacheKeyCreate(<<"confirmed", AddrA, pageSize, id>>),
    hash |-> transaction.hash, transaction |-> transaction] :
      pageSize \in PageSizes, id \in PageIds, transaction \in Transactions}

\* commit('addTransactionToCache', payload)
CommitAddTransactionToCache(payload) ==
  /\ payload.cacheKey \in DOMAIN transactionCache =>
        Len(transactionCache[payload.cacheKey]) < MaxCached
  /\ transactionCache' = addTransactionToCache(transactionCache, payload)
  /\ lastOp' = Op("addTransactionToCache", "", payload.cacheKey \in DOMAIN transactionCache,
                  "none", "undefined")
  /\ UNCHANGED <<stageVars, transactionHashes, confirmedTransactions, unconfirmedTransactions,
                 partialTransactions, pendingFetches, syncVars>>

CacheNext ==
  \/ \E payload \in CachePayloads : CommitAddTransactionToCache(payload)
  \/ \E r \in Requests : REST_FETCH_TRANSACTIONS(r)
  \/ \E call \in BagToSet(pendingFetches), response \in Responses :
        FetchCompletes(call, response)

SpecCache == Init /\ [][CacheNext]_vars

(***************************************************************************)
(* Moving a transaction between groups: the caller dispatches              *)
(* REMOVE_TRANSACTION for the old group and then ADD_TRANSACTION for the   *)
(* new one, one after the other.                                           *)
(***************************************************************************)
\* The two dispatches as the caller makes them: an exception of the first
\* reaches the caller before the second is made.
MoveResult(S, old, new, transaction, payloadHasMeta, heldHaveMeta) ==
  LET message(group) ==
        [group |-> group, cacheKey |-> UndefinedKey, transaction |-> transaction]
      removed == RemoveTransaction(S, message(old), payloadHasMeta, heldHaveMeta)
  IN IF removed.threw THEN removed ELSE AddTransaction(removed.store, message(new))

MoveTransaction(old, new, transaction, payloadHasMeta, heldHaveMeta) ==
  \E result \in {MoveResult(Store, old, new, transaction, payloadHasMeta, heldHaveMeta)} :
     /\ SetStore(result.store)
     /\ lastOp' = [Op("MoveTransaction", new, HashKnown(transactionHashes, transaction.hash),
                      "none", IF result.threw THEN "throw" ELSE "undefined")
                   EXCEPT !.hash = transaction.hash]
     /\ UNCHANGED <<stageVars, pendingFetches, syncVars>>

MoveNext ==
  \/ \E m \in Messages : ADD_TRANSACTION(m)
  \/ RESET_TRANSACTIONS
  \/ \E old \in GroupInputs, new \in GroupInputs, transaction \in Transactions,
        shape \in MetaShapes :
        MoveTransaction(old, new, transaction, shape[1], shape[2])

SpecMove == Init /\ [][MoveNext]_vars

(***************************************************************************)
(* The transaction stage and the signed transactions: the mutations        *)
(* setStagedTransactions, addStagedTransaction, addSignedTransaction and   *)
(* removeSignedTransaction, and the actions ADD_STAGED_TRANSACTION and     *)
(* RESET_TRANSACTION_STAGE.                                                *)
(***************************************************************************)
\* Staged transactions: two of the same hash may differ in content.
Contents == {"v1", "v2"}
StagedValues == [hash : Hashes, content : Contents]

\* Signed transactions, by their hash.
SignedValues == [hash : Hashes]

\* The mutation addStagedTransaction: findIndex is a number, never
\* undefined, so the assignment branch is always the one taken.
addStagedTransaction(staged, transaction) ==
  LET findIndex == FindStagedIndex(staged.elements, transaction.hash)
  IN SetProperty(staged, NumberToKey(findIndex), transaction)

\* The mutation removeSignedTransaction once findIndex has returned.
removeSignedTransaction(signed, findIndex) ==
  ArrayFrom(DeleteProperty(signed, NumberToKey(findIndex), Hole))

StageOp(op, transaction, hit, ret) ==
  [Op(op, "", hit, "none", ret) EXCEPT !.hash = transaction.hash,
                                       !.value = <<transaction>>]

ADD_STAGED_TRANSACTION(stagedTransaction) ==
  /\ stagedTransactions' = addStagedTransaction(stagedTransactions, stagedTransaction)
  /\ lastOp' = StageOp("ADD_STAGED_TRANSACTION", stagedTransaction,
                       FindStagedIndex(stagedTransactions.elements,
                                       stagedTransaction.hash) # -1,
                       "undefined")
  /\ UNCHANGED <<ledgerVars, syncVars, signedTransactions>>

RESET_TRANSACTION_STAGE ==
  /\ stagedTransactions' = ArrayOf(<<>>)
  /\ lastOp' = Op("RESET_TRANSACTION_STAGE", "", FALSE, "none", "undefined")
  /\ UNCHANGED <<ledgerVars, syncVars, signedTransactions>>

\* A commit of setStagedTransactions with an array of transactions.
CommitSetStagedTransactions(transactions) ==
  /\ stagedTransactions' = ArrayOf(transactions)
  /\ lastOp' = Op("setStagedTransactions", "", FALSE, "none", "undefined")
  /\ UNCHANGED <<ledgerVars, syncVars, signedTransactions>>

StageNext ==
  \/ \E transaction \in StagedValues : ADD_STAGED_TRANSACTION(transaction)
  \/ RESET_TRANSACTION_STAGE
  \/ \E transactions \in SeqsUpTo(StagedValues, MaxStaged) :
        CommitSetStagedTransactions(transactions)

SpecStage == Init /\ [][StageNext]_vars

\* A commit of addSignedTransaction.
CommitAddSignedTransaction(transaction) ==
  /\ Len(signedTransactions) < MaxSigned
  /\ signedTransactions' = Append(signedTransactions, transaction)
  /\ lastOp' = StageOp("addSignedTransaction", transaction, FALSE, "undefined")
  /\ UNCHANGED <<ledgerVars, syncVars, stagedTransactions>>

\* A commit of removeSignedTransaction, as REST_ANNOUNCE_TRANSACTION and
\* REST_ANNOUNCE_PARTIAL make it once the announce has gone through. The
\* search raises when it reads the hash of an undefined element, and then
\* nothing is assigned.
CommitRemoveSignedTransaction(transaction) ==
  \E found \in {FindIndex(signedTransactions, transaction.hash)} :
     /\ signedTransactions' =
           IF found.throws THEN signedTransactions
           ELSE removeSignedTransaction(signedTransactions, found.index)
     /\ lastOp' = StageOp("removeSignedTransaction", transaction,
                          \E i \in 1..Len(signedTransactions) :
                             signedTransactions[i] = transaction,
                          IF found.throws THEN "throw" ELSE "undefined")
     /\ UNCHANGED <<ledgerVars, syncVars, stagedTransactions>>

SignedNext ==
  \/ \E transaction \in SignedValues : CommitAddSignedTransaction(transaction)
  \/ \E transaction \in SignedValues : CommitRemoveSignedTransaction(transaction)

SpecSigned == Init /\ [][SignedNext]_vars

(***************************************************************************)
(* The ledger: deduplication, removal, reset.                              *)
(***************************************************************************)
LedgerCount(S, h) ==
  CountHash(h, S.confirmedTransactions) + CountHash(h, S.unconfirmedTransactions)
    + CountHash(h, S.partialTransactions)

LedgerSize(S) ==
  Len(S.confirmedTransactions) + Len(S.unconfirmedTransactions)
    + Len(S.partialTransactions)

IsPrefix(a, b) == Len(a) <= Len(b) /\ SubSeq(b, 1, Len(a)) = a

\* C1: adding is idempotent. A step that dispatches ADD_TRANSACTION (the
\* action itself for a pushed event, the completion of a fetch for a page)
\* only appends: what transactionHashes and the three sequences held stays
\* where it was, and every hash the step makes known has exactly one entry
\* in the ledger. An ADD_TRANSACTION that returns leaves its hash exactly
\* once in transactionHashes and at most once in the ledger, leaves exactly
\* one entry for it when the hash was unknown before (first dispatch) or
\* held before (second dispatch, under any group), and changes nothing when
\* the hash was known.
C1_AddIdempotent ==
  [][LET op == lastOp'
         before == Store
         after == Store'
         known == Count(op.hash, transactionHashes) > 0
     IN  /\ op.op \in {"ADD_TRANSACTION", "FetchCompletes"} =>
              /\ IsPrefix(transactionHashes, transactionHashes')
              /\ \A v \in GroupVariables : IsPrefix(before[v], after[v])
              /\ \A i \in (Len(transactionHashes) + 1)..Len(transactionHashes') :
                    /\ Count(transactionHashes'[i], transactionHashes') = 1
                    /\ LedgerCount(after, transactionHashes'[i]) = 1
         /\ (op.op = "ADD_TRANSACTION" /\ op.ret # "throw") =>
              /\ Count(op.hash, transactionHashes') = 1
              /\ LedgerCount(after, op.hash) <= 1
              /\ ~known => LedgerCount(after, op.hash) = 1
              /\ LedgerCount(before, op.hash) = 1 => LedgerCount(after, op.hash) = 1
              /\ known => after = before
    ]_vars

\* C1 witness: a transaction held in another group was dispatched again
\* under 'confirmed' and dropped.
C1_Witness ==
  /\ lastOp.op = "ADD_TRANSACTION"
  /\ lastOp.hit
  /\ lastOp.group = "confirmed"
  /\ confirmedTransactions = <<>>
  /\ LedgerSize(Store) = Len(transactionHashes)
  /\ LedgerSize(Store) > 0

\* C2: the hashes held in the three sequences are in transactionHashes, no
\* hash is held twice in the ledger (in two sequences or in one), and no
\* hash is twice in transactionHashes.
C2_LedgerInvariant ==
  \A h \in Hashes \cup {UndefinedHash} :
     /\ LedgerCount(Store, h) > 0 => Count(h, transactionHashes) > 0
     /\ LedgerCount(Store, h) <= 1
     /\ Count(h, transactionHashes) <= 1

\* C2 witness: two transactions held in two different sequences, after a
\* REMOVE_TRANSACTION that found its transaction.
C2_Witness ==
  /\ lastOp.op = "REMOVE_TRANSACTION"
  /\ lastOp.hit
  /\ LedgerSize(Store) >= 2
  /\ Cardinality({v \in GroupVariables : Store[v] # <<>>}) >= 2

\* C3 as claimed: REMOVE_TRANSACTION on a valid group takes a transaction
\* held in that group's sequence out of the sequence and its hash out of
\* transactionHashes, and changes nothing when the sequence does not hold it.
C3_RemoveRemoves ==
  [][lastOp'.op = "REMOVE_TRANSACTION" =>
     \A m \in Messages, shape \in MetaShapes :
        (REMOVE_TRANSACTION(m, shape[1], shape[2]) /\ GroupOf(m) # "") =>
           LET variable == transactionGroupToStateVariable(m.group).name
               h == m.transaction.hash
           IN IF CountHash(h, Store[variable]) > 0
              THEN /\ CountHash(h, Store'[variable]) = 0
                   /\ Count(h, transactionHashes') = 0
              ELSE Store' = Store
    ]_vars

\* C4 as claimed: RESET_TRANSACTIONS empties the three sequences and takes
\* the hashes they held out of transactionHashes, so that an
\* ADD_TRANSACTION right after it, of a transaction the ledger does not
\* hold, puts the transaction in the ledger.
C4_ResetForgetsHashes ==
  [][/\ RESET_TRANSACTIONS =>
          /\ LedgerSize(Store') = 0
          /\ \A h \in Hashes : LedgerCount(Store, h) > 0 => Count(h, transactionHashes') = 0
     /\ (lastOp.op = "RESET_TRANSACTIONS" /\ lastOp'.op = "ADD_TRANSACTION") =>
          \A m \in Messages :
             (ADD_TRANSACTION(m) /\ GroupOf(m) # "") =>
                LedgerCount(Store', m.transaction.hash) = 1
    ]_vars

(***************************************************************************)
(* The page fetch: cache and return value.                                 *)
(***************************************************************************)
\* The transactions of a cache entry.
CachedPage(entries) == [i \in 1..Len(entries) |-> entries[i].transaction]

\* C5 as claimed: a fetch that missed the cache and whose gateway call
\* succeeded leaves the page in transactionCache under the call's cache
\* key, and the next call with the same key is answered from the cache
\* without asking the gateway.
C5_FetchedPageCached ==
  [][/\ lastOp'.op = "FetchCompletes" =>
          \A call \in BagToSet(pendingFetches), response \in Responses :
             (FetchCompletes(call, response) /\ ~response.error) =>
                /\ call.cacheKey \in DOMAIN transactionCache'
                /\ CachedPage(transactionCache'[call.cacheKey]) = response.page
     /\ (/\ lastOp.op = "FetchCompletes"
         /\ lastOp.answer # "error"
         /\ lastOp'.op = "REST_FETCH_TRANSACTIONS") =>
          \A r \in Requests :
             (/\ REST_FETCH_TRANSACTIONS(r)
              /\ ~FetchAddressRejected(r.address)
              /\ Normalized(r).cacheKey = lastOp.key) =>
                /\ lastOp'.ret = "cached"
                /\ pendingFetches' = pendingFetches
    ]_vars

\* C6 as claimed: a fetch that missed the cache returns false exactly when
\* the gateway call failed, and the page otherwise; it never throws.
C6_FalseOnlyOnError ==
  lastOp.op = "FetchCompletes" =>
     /\ lastOp.ret \in {"false", "page"}
     /\ lastOp.ret = "false" <=> lastOp.answer = "error"

(***************************************************************************)
(* The subscriptions: registration, teardown, the lock.                    *)
(***************************************************************************)
Registered(registry) == {registry[i].handle : i \in 1..Len(registry)}

IsOpen(handle) == handle.subsOpen \/ handle.listenerOpen

\* C7: after initialize(A), uninitialize(), initialize(B) issued back to
\* back, once the lock has run the three callbacks and every SUBSCRIBE has
\* completed, the registry holds exactly the handles opened for the
\* initialize(B), they are open, and no handle opened for the initialize(A)
\* is still open.
C7_OnlyLastInitializeSubscribed ==
  \A A \in WalletAddresses, B \in WalletAddresses :
     (/\ issued = <<Call("initialize", A), Call("uninitialize", ""), Call("initialize", B)>>
      /\ lockQueue = <<>>
      /\ pendingSubscribes = <<>>)
     => /\ Registered(subscriptions) = {h \in DOMAIN handles : handles[h].call = 3}
        /\ \A h \in DOMAIN handles :
              /\ handles[h].call = 3 => handles[h].subsOpen /\ handles[h].listenerOpen
              /\ handles[h].call = 1 => ~IsOpen(handles[h])

\* C8: when every call made is a SET_CURRENT_WALLET, the lock runs a
\* callback of initialize only right after a callback of uninitialize, and
\* no two handles for different addresses are open at the same time.
C8_SwitchesNeverOverlap ==
  [][(\A i \in 1..Len(issued') : issued'[i].op = "SET_CURRENT_WALLET") =>
        /\ lastOp'.op = "initializeCallback" => lastBody = "uninitialize"
        /\ \A h \in DOMAIN handles', g \in DOMAIN handles' :
              IsOpen(handles'[h]) /\ IsOpen(handles'[g])
                => handles'[h].address = handles'[g].address
    ]_vars

\* C9: when a SUBSCRIBE for a non-empty address completes, the handle it
\* opened is in state.subscriptions (where the next UNSUBSCRIBE finds it).
C9_SubscribedHandleRegistered ==
  [][lastOp'.op = "SubscribeCompletes" => Len(handles') \in Registered(subscriptions')]_vars

\* C10: an UNSUBSCRIBE in which one registered handle raises (on
\* unsubscribe or on close) still leaves every other registered handle
\* unsubscribed and closed, and leaves the registry empty.
C10_TeardownBestEffort ==
  [][lastOp'.op = "UNSUBSCRIBE" =>
        \A fail \in FailPoints(subscriptions) :
           (fail[1] # 0 /\ UNSUBSCRIBE(fail)) =>
              /\ subscriptions' = <<>>
              /\ \A i \in 1..Len(subscriptions) :
                    i # fail[1] => ~IsOpen(handles'[subscriptions[i].handle])
    ]_vars

\* C11: UNSUBSCRIBE closes no listener whose channels are still subscribed,
\* empties the registry only when every registered handle has been
\* unsubscribed and closed, and when it returns the registry is empty.
C11_UnsubscribeBeforeClose ==
  [][lastOp'.op = "UNSUBSCRIBE" =>
        /\ \A h \in DOMAIN handles' : ~handles'[h].closedEarly
        /\ subscriptions' \in {<<>>, subscriptions}
        /\ (subscriptions' = <<>>) =>
              \A h \in Registered(subscriptions) : ~IsOpen(handles'[h])
        /\ lastOp'.ret = "undefined" => subscriptions' = <<>>
    ]_vars

\* C11 witness: an UNSUBSCRIBE over two registered open handles has returned.
C11_Witness ==
  /\ lastOp.op = "UNSUBSCRIBE"
  /\ lastOp.hit
  /\ lastOp.ret = "undefined"
  /\ subscriptions = <<>>
  /\ Cardinality({h \in DOMAIN handles : ~IsOpen(handles[h])}) >= 2

\* C12: when the callback of uninitialize has run to its end, the registry
\* is empty, the three ledger sequences are empty, the transaction cache
\* holds no key (every key cached before misses), and initialized is false.
C12_UninitializeClearsAll ==
  [][(lastOp'.op = "uninitializeCallback" /\ lastOp'.ret = "undefined") =>
        /\ subscriptions' = <<>>
        /\ \A v \in GroupVariables : Store'[v] = <<>>
        /\ \A key \in DOMAIN transactionCache : key \notin DOMAIN transactionCache'
        /\ DOMAIN transactionCache' = {}
        /\ initialized' = FALSE
    ]_vars

\* C13: when the gateway answers a fetch that was made for the wallet of
\* address A, and the store has since been uninitialized and initialized
\* again for another address B, the three ledger sequences stay as they are.
C13_LateFetchKeptOut ==
  [][(/\ lastOp'.op = "FetchCompletes"
      /\ lockQueue = <<>>
      /\ initialized
      /\ \E call \in BagToSet(pendingFetches) :
            /\ call.cacheKey = lastOp'.key
            /\ call.address # currentWalletAddress) =>
        \A v \in GroupVariables : Store'[v] = Store[v]
    ]_vars

(***************************************************************************)
(* Input validation, the page fetch, the getter.                           *)
(***************************************************************************)
\* C14: no operation throws to its caller because of a missing or unknown
\* group tag or an empty address: after an ADD_TRANSACTION or a
\* REMOVE_TRANSACTION with such a tag, and after any
\* REST_FETCH_TRANSACTIONS, the operation has returned, not thrown.
C14_NoThrowOnBadInput ==
  /\ (lastOp.op \in {"ADD_TRANSACTION", "REMOVE_TRANSACTION"} /\ lastOp.group = "")
        => lastOp.ret # "throw"
  /\ lastOp.op \in {"REST_FETCH_TRANSACTIONS", "FetchCompletes"} => lastOp.ret # "throw"

\* C15: a REST_FETCH_TRANSACTIONS whose group is missing or is none of
\* 'partial', 'unconfirmed', 'confirmed' does what the same call with group
\* 'confirmed' does: it goes on with the same group, address, page size, id
\* and cache key (so it asks the gateway the same and completes the same),
\* returns the same, and leaves the same state.
C15_InvalidGroupIsConfirmed ==
  [][lastOp'.op = "REST_FETCH_TRANSACTIONS" =>
        \A r \in Requests :
           (r.group \notin {"partial", "unconfirmed", "confirmed"}
              /\ REST_FETCH_TRANSACTIONS(r)) =>
              /\ Normalized(r) = Normalized([r EXCEPT !.group = "confirmed"])
              /\ REST_FETCH_TRANSACTIONS([r EXCEPT !.group = "confirmed"])
    ]_vars

\* C15 witness: with transactions in the ledger, a fetch that went on as
\* 'confirmed' (asked with 'confirmed' or with a tag that was defaulted:
\* the state does not tell which) waits for the gateway.
C15_Witness ==
  /\ lastOp.op = "REST_FETCH_TRANSACTIONS"
  /\ lastOp.group = "confirmed"
  /\ lastOp.ret = "pending"
  /\ \E call \in BagToSet(pendingFetches) : call.group = "confirmed"
  /\ LedgerSize(Store) > 0

\* C16: a REST_FETCH_TRANSACTIONS whose address is accepted and whose cache
\* key is in transactionCache returns the entry held under that key, asks
\* the gateway nothing, and leaves transactionHashes, the three sequences
\* and transactionCache as they were (no ADD_TRANSACTION has run).
C16_CacheHitShortCircuits ==
  [][lastOp'.op = "REST_FETCH_TRANSACTIONS" =>
        \A r \in Requests :
           (/\ REST_FETCH_TRANSACTIONS(r)
            /\ ~FetchAddressRejected(r.address)
            /\ Normalized(r).cacheKey \in DOMAIN transactionCache) =>
              /\ lastOp'.ret = "cached"
              /\ lastOp'.value = transactionCache[Normalized(r).cacheKey]
              /\ pendingFetches' = pendingFetches
              /\ Store' = Store
    ]_vars

\* C16 witness: a fetch was answered from the cache with a non-empty entry
\* while the ledger held transactions.
C16_Witness ==
  /\ lastOp.op = "REST_FETCH_TRANSACTIONS"
  /\ lastOp.hit
  /\ lastOp.ret = "cached"
  /\ lastOp.value # <<>>
  /\ LedgerSize(Store) > 0

\* C17: allTransactions holds the entries of partialTransactions in their
\* order, then those of unconfirmedTransactions, then those of
\* confirmedTransactions, and nothing else, in whatever order the
\* transactions were added.
C17_AllTransactionsOrder ==
  LET all == allTransactions(Store)
      p == Len(partialTransactions)
      u == Len(unconfirmedTransactions)
      c == Len(confirmedTransactions)
  IN /\ Len(all) = p + u + c
     /\ \A i \in 1..p : all[i] = partialTransactions[i]
     /\ \A i \in 1..u : all[p + i] = unconfirmedTransactions[i]
     /\ \A i \in 1..c : all[p + u + i] = confirmedTransactions[i]

\* C17 witness: a confirmed transaction was added first and a partial one
\* after it; the getter gives the partial one first.
C17_Witness ==
  /\ confirmedTransactions # <<>>
  /\ partialTransactions # <<>>
  /\ transactionHashes[1] = confirmedTransactions[1].hash
  /\ allTransactions(Store)[1] = partialTransactions[1]

\* C18: when the gateway answers a waiting fetch with a page, every hash of
\* the page is in transactionHashes afterwards, and every transaction of
\* the page whose hash was not known before is in the sequence of the
\* group fetched; for each of the three groups.
C18_PageRoutedThroughAdd ==
  [][lastOp'.op = "FetchCompletes" =>
        \A call \in BagToSet(pendingFetches), response \in Responses :
           (~response.error /\ FetchCompletes(call, response)) =>
              \A i \in 1..Len(response.page) :
                 /\ Count(response.page[i].hash, transactionHashes') > 0
                 /\ Count(response.page[i].hash, transactionHashes) = 0 =>
                       CountHash(response.page[i].hash,
                                 Store'[transactionGroupToStateVariable(call.group).name]) > 0
    ]_vars

\* C19: when a transaction held in the sequence of one group is moved to
\* another group (REMOVE_TRANSACTION for the old group, then
\* ADD_TRANSACTION for the new one, the objects carrying the hash where
\* REMOVE_TRANSACTION reads it), it is afterwards in the new group's
\* sequence exactly once, in no other sequence, and its hash is exactly
\* once in transactionHashes.
C19_MoveBetweenGroups ==
  [][lastOp'.op = "MoveTransaction" =>
        \A old \in {"confirmed", "unconfirmed", "partial"},
           new \in {"confirmed", "unconfirmed", "partial"},
           transaction \in Transactions :
           (/\ old # new
            /\ CountHash(transaction.hash,
                         Store[transactionGroupToStateVariable(old).name]) > 0
            /\ MoveTransaction(old, new, transaction, TRUE, TRUE)) =>
              /\ CountHash(transaction.hash,
                           Store'[transactionGroupToStateVariable(new).name]) = 1
              /\ LedgerCount(Store', transaction.hash) = 1
              /\ Count(transaction.hash, transactionHashes') = 1
    ]_vars

\* C20: a fetch for the confirmed group that the gateway answers with a
\* non-empty page dispatches network/REST_FETCH_BLOCKS and returns the
\* page; a fetch for the unconfirmed or the partial group does not
\* dispatch it.
C20_BlocksFetchedForConfirmed ==
  lastOp.op = "FetchCompletes" =>
     /\ (lastOp.group = "confirmed" /\ lastOp.answer = "page") =>
           lastOp.blocks /\ lastOp.ret = "page"
     /\ lastOp.group \in {"unconfirmed", "partial"} => ~lastOp.blocks

\* C21: removeSignedTransaction compacts the sequence: when a signed
\* transaction of the given hash is present, signedTransactions is one
\* element shorter afterwards; when none is present it is unchanged; and
\* signedTransactions never holds an undefined element.
C21_RemoveSignedCompacts ==
  [][lastOp'.op = "removeSignedTransaction" =>
       /\ IF lastOp'.hit
          THEN Len(signedTransactions') = Len(signedTransactions) - 1
          ELSE signedTransactions' = signedTransactions
       /\ \A i \in 1..Len(signedTransactions') :
             signedTransactions'[i] # UndefinedElement]_vars

\* C22: ADD_STAGED_TRANSACTION appends a transaction whose hash is not yet
\* staged at the end of stagedTransactions, the earlier elements kept in
\* their order, and puts one whose hash is staged in the place of the
\* staged entry, the length unchanged.
C22_StageUpdatesOrPushes ==
  [][lastOp'.op = "ADD_STAGED_TRANSACTION" =>
       LET staged == stagedTransactions.elements
           after == stagedTransactions'.elements
           transaction == lastOp'.value[1]
       IN IF lastOp'.hit
          THEN /\ Len(after) = Len(staged)
               /\ after = [i \in 1..Len(staged) |->
                             IF i = FindStagedIndex(staged, transaction.hash) + 1
                             THEN transaction ELSE staged[i]]
          ELSE after = Append(staged, transaction)]_vars

====
